---- MODULE Spec2Model ----
(***************************************************************************)
(* Model of src/rtd_simulation.py (class RTDSimulation).                   *)
(*                                                                         *)
(* Numbers.  The program computes in IEEE doubles.  The model computes on  *)
(* a grid of 1/Scale: a number x is the integer x*Scale, addition and      *)
(* subtraction are exact, and a product or a quotient is rounded to the    *)
(* nearest grid point, ties to even, as a floating-point operation rounds  *)
(* its result to the nearest representable number.  Overflow is outside    *)
(* the model: every value stays far below the range of the integers.       *)
(*                                                                         *)
(* Arrays.  current_prediction starts as np.array([0.0]) (line 50), so     *)
(* every filter state, and the coherence computed from one, is a numpy     *)
(* array of shape (1,); target_pos is a numpy scalar.  The model keeps the *)
(* single element and records the kind of a value where the code's         *)
(* behaviour depends on it (the format specification at line 67).          *)
(***************************************************************************)
EXTENDS Integers, Sequences, FiniteSets

VARIABLES
    dt, noise_level, static_core, eigen_decay, phi_state,  \* fields of the object
    pc,                  \* position of the caller / of run
    calls,               \* number of calls of run made so far
    steps,               \* argument of the current call of run
    i,                   \* loop variable of run (number of iterations of Update in FilterSpec)
    t,                   \* local t of run
    target_pos,          \* local target_pos of run (raw_signal in FilterSpec)
    current_prediction,  \* local current_prediction of run (predicted_state in FilterSpec)
    stable_pos,          \* local stable_pos of run
    raw_sensor_data,     \* local list raw_sensor_data
    rtd_trajectory,      \* local list rtd_trajectory (the states produced, in FilterSpec)
    stdout,              \* lines printed by the current call of run
    ret,                 \* value returned by the last finished call
    exc                  \* exception raised by the last finished call, or "none"

fields == <<dt, noise_level, static_core, eigen_decay, phi_state>>

locals == <<steps, i, t, target_pos, current_prediction, stable_pos,
            raw_sensor_data, rtd_trajectory>>

vars == <<fields, pc, calls, locals, stdout, ret, exc>>

----------------------------------------------------------------------------
(* Bounds *)

\* grid points per unit: the precision of the modelled arithmetic
Scale == 100

\* largest argument of run that is tried
MaxSteps == 3

\* number of calls of run on one object
MaxCalls == 2

\* largest magnitude of a raw sample, in grid points
MaxRaw == 300

\* number of successive applications of the filter in FilterSpec
MaxIter == 4

----------------------------------------------------------------------------
(* Arithmetic *)

Abs(x) == IF x < 0 THEN -x ELSE x

Min(a, b) == IF a <= b THEN a ELSE b

Max(a, b) == IF a >= b THEN a ELSE b

\* n / d for d > 0, rounded to the nearest integer, ties to even
RoundDiv(n, d) ==
    LET q == n \div d
        r == n % d
    IN  IF 2 * r < d THEN q
        ELSE IF 2 * r > d THEN q + 1
        ELSE IF q % 2 = 0 THEN q ELSE q + 1

\* rounded product of two grid numbers
Mul(a, b) == RoundDiv(a * b, Scale)

\* rounded quotient of two grid numbers, b > 0
Div(a, b) == RoundDiv(a * Scale, b)

One == Scale

\* the literal 1.5 of line 66
OnePointFive == (3 * Scale) \div 2

\* the default eigen_decay 0.85 of line 15
DefaultEigenDecay == (85 * Scale) \div 100

\* values of eigen_decay tried: 0.5, the default, exactly 1, and 2
EigenDecays == {Scale \div 2, DefaultEigenDecay, Scale, 2 * Scale}

\* values get_target_movement may return
RawValues == {-MaxRaw, -Scale, 0, 2, Scale, MaxRaw}

\* arguments of run tried
StepsValues == -1 .. MaxSteps

\* the period of the coherence log, line 64
LogEvery == 200

----------------------------------------------------------------------------
(* The object *)

\* __init__, lines 8-16; eigen_decay is a public attribute the caller may
\* set before run, so it is drawn from EigenDecays
InitFields ==
    /\ dt = Scale \div 100
    /\ noise_level = (2 * Scale) \div 5
    /\ static_core = <<0, 0>>
    /\ eigen_decay \in EigenDecays
    /\ phi_state = <<0, 0>>

\* get_target_movement, lines 18-26: pulse + breath + a normal draw, which
\* may be any number; the model draws the sum from RawValues
get_target_movement(time) == RawValues

\* apply_rtd_filter with the gain eigen_decay in place of 1 - eigen_decay
apply_rtd_filter_gain_is_decay(raw_signal, predicted_state) ==
    LET error == raw_signal - predicted_state
        gamma_correction == Mul(error, eigen_decay)
        new_state == predicted_state + gamma_correction
    IN  new_state

\* apply_rtd_filter with the gain 1 + eigen_decay
apply_rtd_filter_gain_sign(raw_signal, predicted_state) ==
    LET error == raw_signal - predicted_state
        gamma_correction == Mul(error, One + eigen_decay)
        new_state == predicted_state + gamma_correction
    IN  new_state

\* apply_rtd_filter with the error taken against the anchor static_core
\* instead of the predicted state
apply_rtd_filter_anchor_error(raw_signal, predicted_state) ==
    LET error == raw_signal - static_core[1]
        gamma_correction == Mul(error, One - eigen_decay)
        new_state == predicted_state + gamma_correction
    IN  new_state

\* apply_rtd_filter, lines 28-39
apply_rtd_filter(raw_signal, predicted_state) ==
    LET error == raw_signal - predicted_state
        gamma_correction == Mul(error, One - eigen_decay)
        new_state == predicted_state + gamma_correction
    IN  new_state

\* line 66: 1.0 - (|stable_pos - target_pos| / (|target_pos| + 1.5))
Denominator(target) == Abs(target) + OnePointFive

Coherence(stable, target) ==
    One - Div(Abs(stable - target), Denominator(target))

\* line 67 without the clamp
ClampMissing(coherence) == [kind |-> "int", val |-> coherence]

\* line 67, max(0, coherence): the builtin keeps its first argument, the int
\* 0, unless coherence > 0, and then returns coherence itself, an ndarray of
\* shape (1,)
Clamp(coherence) ==
    IF coherence > 0 THEN [kind |-> "ndarray", val |-> coherence]
    ELSE [kind |-> "int", val |-> 0]

\* line 67, the format specification .4f: ndarray.__format__ accepts a
\* format specification only for 0-dimensional arrays and raises TypeError
\* for any other array
Formattable(v) == v.kind # "ndarray"

Line(kind, step, coherence) ==
    [kind |-> kind, step |-> step, coherence |-> coherence]

\* lines 42-45
Banner == << Line("banner", -1, 0), Line("banner", -1, 0),
             Line("banner", -1, 0), Line("banner", -1, 0) >>

\* lines 69-71
Summary == << Line("summary", -1, 0), Line("summary", -1, 0),
              Line("summary", -1, 0) >>

----------------------------------------------------------------------------
(* run, lines 41-72 *)

Init ==
    /\ InitFields
    /\ pc = "idle"
    /\ calls = 0
    /\ steps = 0
    /\ i = 0
    /\ t = 0
    /\ target_pos = 0
    /\ current_prediction = 0
    /\ stable_pos = 0
    /\ raw_sensor_data = << >>
    /\ rtd_trajectory = << >>
    /\ stdout = << >>
    /\ ret = << >>
    /\ exc = "none"

\* run with the filter state carried over from the previous call
RunKeepsPrediction(s) ==
    /\ pc \in {"idle", "done", "raised"}
    /\ calls < MaxCalls
    /\ calls' = calls + 1
    /\ steps' = s
    /\ stdout' = Banner
    /\ rtd_trajectory' = << >>
    /\ raw_sensor_data' = << >>
    /\ i' = 0
    /\ t' = 0
    /\ target_pos' = 0
    /\ stable_pos' = 0
    /\ ret' = << >>
    /\ exc' = "none"
    /\ pc' = "loop"
    /\ UNCHANGED <<fields, current_prediction>>

\* lines 41-50: the call, the banner and the initial locals
Run(s) ==
    /\ pc \in {"idle", "done", "raised"}
    /\ calls < MaxCalls
    /\ calls' = calls + 1
    /\ steps' = s
    /\ stdout' = Banner
    /\ rtd_trajectory' = << >>
    /\ raw_sensor_data' = << >>
    /\ current_prediction' = 0
    /\ i' = 0
    /\ t' = 0
    /\ target_pos' = 0
    /\ stable_pos' = 0
    /\ ret' = << >>
    /\ exc' = "none"
    /\ pc' = "loop"
    /\ UNCHANGED fields

\* lines 52-56: the next i of range(steps), t, the raw sample and its append
Acquire ==
    /\ pc = "loop"
    /\ i < steps
    /\ t' = i * dt
    /\ \E v \in get_target_movement(i * dt) :
          /\ target_pos' = v
          /\ raw_sensor_data' = Append(raw_sensor_data, v)
    /\ pc' = "filter"
    /\ UNCHANGED <<fields, calls, steps, i, current_prediction, stable_pos,
                   rtd_trajectory, stdout, ret, exc>>

\* lines 59-61 with the filter always fed the initial state
ApplyFilterFromZero ==
    /\ pc = "filter"
    /\ LET new == apply_rtd_filter(target_pos, 0)
       IN  /\ stable_pos' = new
           /\ current_prediction' = new
           /\ rtd_trajectory' = Append(rtd_trajectory, new)
    /\ pc' = "log"
    /\ UNCHANGED <<fields, calls, steps, i, t, target_pos, raw_sensor_data,
                   stdout, ret, exc>>

\* lines 59-61
ApplyFilter ==
    /\ pc = "filter"
    /\ LET new == apply_rtd_filter(target_pos, current_prediction)
       IN  /\ stable_pos' = new
           /\ current_prediction' = new
           /\ rtd_trajectory' = Append(rtd_trajectory, new)
    /\ pc' = "log"
    /\ UNCHANGED <<fields, calls, steps, i, t, target_pos, raw_sensor_data,
                   stdout, ret, exc>>

\* line 64, condition false: no log line for this step
LogSkip ==
    /\ pc = "log"
    /\ i % LogEvery # 0
    /\ i' = i + 1
    /\ pc' = "loop"
    /\ UNCHANGED <<fields, calls, steps, t, target_pos, current_prediction,
                   stable_pos, raw_sensor_data, rtd_trajectory, stdout, ret, exc>>

\* lines 64-67, the clamped value is the int 0 and is printed
LogLine ==
    /\ pc = "log"
    /\ i % LogEvery = 0
    /\ LET v == Clamp(Coherence(stable_pos, target_pos))
       IN  /\ Formattable(v)
           /\ stdout' = Append(stdout, Line("step", i, v.val))
    /\ i' = i + 1
    /\ pc' = "loop"
    /\ UNCHANGED <<fields, calls, steps, t, target_pos, current_prediction,
                   stable_pos, raw_sensor_data, rtd_trajectory, ret, exc>>

\* lines 64-67, the clamped value is the array: the f-string raises
\* TypeError before anything is printed, and run is left by the exception
LogRaise ==
    /\ pc = "log"
    /\ i % LogEvery = 0
    /\ ~ Formattable(Clamp(Coherence(stable_pos, target_pos)))
    /\ exc' = "TypeError"
    /\ pc' = "raised"
    /\ UNCHANGED <<fields, calls, locals, stdout, ret>>

\* lines 69-72: range(steps) is exhausted (at once when steps <= 0)
Return ==
    /\ pc = "loop"
    /\ ~ (i < steps)
    /\ stdout' = stdout \o Summary
    /\ ret' = <<raw_sensor_data, rtd_trajectory>>
    /\ pc' = "done"
    /\ UNCHANGED <<fields, calls, locals, exc>>

Next ==
    \/ \E s \in StepsValues : Run(s)
    \/ Acquire
    \/ ApplyFilter
    \/ LogSkip
    \/ LogLine
    \/ LogRaise
    \/ Return

Spec == Init /\ [][Next]_vars

----------------------------------------------------------------------------
(* Repeated application of apply_rtd_filter to a constant raw_signal *)

\* values of raw_signal and of the first predicted_state
FilterValues == {-MaxRaw, -Scale, 0, 2, Scale, MaxRaw}

InitFilter ==
    /\ InitFields
    /\ pc = "update"
    /\ calls = 0
    /\ steps = 0
    /\ i = 0
    /\ t = 0
    /\ target_pos \in FilterValues
    /\ current_prediction \in FilterValues
    /\ stable_pos = current_prediction
    /\ raw_sensor_data = << >>
    /\ rtd_trajectory = <<current_prediction>>
    /\ stdout = << >>
    /\ ret = << >>
    /\ exc = "none"

\* one call apply_rtd_filter(raw_signal, predicted_state), its result being
\* the predicted_state of the next call
Update ==
    /\ pc = "update"
    /\ i < MaxIter
    /\ LET new == apply_rtd_filter(target_pos, current_prediction)
       IN  /\ stable_pos' = new
           /\ current_prediction' = new
           /\ rtd_trajectory' = Append(rtd_trajectory, new)
    /\ i' = i + 1
    /\ UNCHANGED <<fields, pc, calls, steps, t, target_pos, raw_sensor_data,
                   stdout, ret, exc>>

NextFilter == Update

FilterSpec == InitFilter /\ [][NextFilter]_vars

----------------------------------------------------------------------------
(* Properties of run, checked under Spec *)

finished == pc \in {"done", "raised"}

\* the coherence lines printed so far, in order
StepLines == SelectSeq(stdout, LAMBDA l : l.kind = "step")

\* the number of coherence lines printed for step idx
Logged(idx) == Cardinality({k \in 1 .. Len(StepLines) : StepLines[k].step = idx})

\* C1: for steps >= 0 run(steps) ends by returning the two lists, each with
\* exactly steps entries; while it runs the lists have equal length once a
\* step is complete, and the sample of step i is appended at index i
C1_RunReturnsStepsEntries ==
    (calls > 0 /\ steps >= 0) =>
        /\ pc \in {"loop", "log", "done", "raised"} =>
              Len(raw_sensor_data) = Len(rtd_trajectory)
        /\ pc = "filter" => Len(raw_sensor_data) = i + 1 /\ t = i * dt
        /\ finished =>
              /\ pc = "done"
              /\ ret = <<raw_sensor_data, rtd_trajectory>>
              /\ Len(ret[1]) = steps
              /\ Len(ret[2]) = steps

\* C2: a call of run with negative steps ends with an InvalidArgument error,
\* never with a normal return
C2_NegativeStepsRaises ==
    (calls > 0 /\ steps < 0 /\ finished) =>
        (pc = "raised" /\ exc = "InvalidArgument")

\* C3: the first filtered entry is the update of the first raw sample from
\* the state 0, and every later filtered entry is its predecessor plus
\* (raw - predecessor) * (1 - eigen_decay): it depends on the previous
\* state and the current sample only
C3_FilterRecursion ==
    /\ \A k \in 1 .. Len(rtd_trajectory) :
          LET prev == IF k = 1 THEN 0 ELSE rtd_trajectory[k - 1]
          IN  rtd_trajectory[k] =
                 prev + Mul(raw_sensor_data[k] - prev, One - eigen_decay)
    /\ pc = "done" => ret = <<raw_sensor_data, rtd_trajectory>>

\* a call has returned a trajectory of two or more steps whose second entry
\* was computed from a non-zero first entry
C3_Witness ==
    /\ pc = "done"
    /\ Len(ret[2]) >= 2
    /\ ret[2][1] # 0
    /\ ret[2][2] # ret[2][1]
    /\ ret[2][2] # Mul(ret[1][2], One - eigen_decay)

\* C4: between steps and at the end of run, step idx has exactly one
\* coherence line if it has been executed and is a multiple of 200, and none
\* otherwise; the lines are in increasing step order
C4_LogLinesAtMultiplesOf200 ==
    (calls > 0 /\ pc \in {"loop", "done", "raised"}) =>
        /\ \A idx \in 0 .. MaxSteps + 1 :
              Logged(idx) = IF idx < Len(raw_sensor_data) /\ idx % LogEvery = 0
                            THEN 1 ELSE 0
        /\ \A k \in 1 .. Len(StepLines) - 1 :
              StepLines[k].step < StepLines[k + 1].step

\* C5: every coherence value printed is >= 0, and the denominator of the
\* coherence of the current step is strictly positive
C5_LoggedCoherenceNonNegative ==
    /\ \A k \in 1 .. Len(stdout) :
          stdout[k].kind = "step" => stdout[k].coherence >= 0
    /\ pc = "log" => Denominator(target_pos) > 0

\* a coherence line was printed for a step whose unclamped coherence is
\* negative
C5_Witness ==
    \E k \in 1 .. Len(stdout) :
        /\ stdout[k].kind = "step"
        /\ stdout[k].coherence = 0
        /\ stdout[k].step + 1 <= Len(rtd_trajectory)
        /\ Coherence(rtd_trajectory[stdout[k].step + 1],
                     raw_sensor_data[stdout[k].step + 1]) < 0

RECURSIVE FreshRun(_, _)
FreshRun(xs, p) ==
    IF xs = << >> THEN << >>
    ELSE LET new == p + Mul(Head(xs) - p, One - eigen_decay)
         IN  <<new>> \o FreshRun(Tail(xs), new)

\* C10: no step of run changes a field of the object, a call starts from the
\* state 0 with empty lists, and in every call, the first or a later one, the
\* filtered trajectory is the one a fresh object computes from the same raw
\* samples
C10_RunIsSelfContained ==
    /\ [][fields' = fields]_vars
    /\ [][calls' = calls + 1 =>
             /\ current_prediction' = 0
             /\ rtd_trajectory' = << >>
             /\ raw_sensor_data' = << >>]_vars
    /\ [](rtd_trajectory =
             FreshRun(SubSeq(raw_sensor_data, 1, Len(rtd_trajectory)), 0))

\* a second call on the same object has filtered a sample to a non-zero state
C10_Witness ==
    /\ calls = 2
    /\ Len(rtd_trajectory) >= 1
    /\ rtd_trajectory[1] # 0

----------------------------------------------------------------------------
(* Properties of apply_rtd_filter, checked under FilterSpec: target_pos is *)
(* the constant raw_signal r and rtd_trajectory is s(0), s(1), ...         *)

Dist(k) == Abs(rtd_trajectory[k] - target_pos)

\* C6 as stated: for 0 < eigen_decay < 1 the distance to r never grows and
\* shrinks strictly while the state differs from r, and every state lies
\* between s(0) and r
C6_StrictlyMonotone ==
    (pc = "update" /\ 0 < eigen_decay /\ eigen_decay < One) =>
        \A k \in 1 .. Len(rtd_trajectory) :
            /\ Min(rtd_trajectory[1], target_pos) <= rtd_trajectory[k]
            /\ rtd_trajectory[k] <= Max(rtd_trajectory[1], target_pos)
            /\ k < Len(rtd_trajectory) =>
                  /\ Dist(k + 1) <= Dist(k)
                  /\ rtd_trajectory[k] # target_pos => Dist(k + 1) < Dist(k)

\* C6 as amended: for 0 < eigen_decay < 1 the distance to r never grows and
\* every state lies between s(0) and r
C6_Monotone ==
    (pc = "update" /\ 0 < eigen_decay /\ eigen_decay < One) =>
        \A k \in 1 .. Len(rtd_trajectory) :
            /\ Min(rtd_trajectory[1], target_pos) <= rtd_trajectory[k]
            /\ rtd_trajectory[k] <= Max(rtd_trajectory[1], target_pos)
            /\ k < Len(rtd_trajectory) => Dist(k + 1) <= Dist(k)

\* with 0 < eigen_decay < 1 the filter has moved strictly closer to r in
\* each of two or more steps without reaching it
C6_Witness ==
    /\ pc = "update"
    /\ 0 < eigen_decay /\ eigen_decay < One
    /\ Len(rtd_trajectory) >= 3
    /\ Dist(2) < Dist(1)
    /\ Dist(3) < Dist(2)
    /\ Dist(3) > 0

\* C7 as stated: for eigen_decay at or above 1 every update returns the
\* state it was given
C7_FrozenAtOrAboveOne ==
    (pc = "update" /\ eigen_decay >= One) =>
        \A k \in 1 .. Len(rtd_trajectory) - 1 :
            rtd_trajectory[k + 1] = rtd_trajectory[k]

\* C7 as amended: for eigen_decay exactly 1 every update returns the state it
\* was given; for eigen_decay above 1 the correction
\* (r - s) * (1 - eigen_decay) is applied, which never points towards r, so
\* the distance to r never shrinks
C7_FrozenAtOneRepelledAbove ==
    pc = "update" =>
        \A k \in 1 .. Len(rtd_trajectory) - 1 :
            /\ eigen_decay = One => rtd_trajectory[k + 1] = rtd_trajectory[k]
            /\ eigen_decay > One =>
                  /\ rtd_trajectory[k + 1] - rtd_trajectory[k] =
                        Mul(target_pos - rtd_trajectory[k], One - eigen_decay)
                  /\ (rtd_trajectory[k + 1] - rtd_trajectory[k])
                        * (target_pos - rtd_trajectory[k]) <= 0
                  /\ Dist(k + 1) >= Dist(k)

\* with eigen_decay above 1 an update has moved the state away from r
C7_Witness ==
    /\ pc = "update"
    /\ eigen_decay > One
    /\ Len(rtd_trajectory) >= 2
    /\ rtd_trajectory[2] # rtd_trajectory[1]
    /\ Dist(2) > Dist(1)

\* C9: whenever the state equals the raw sample r the update returns r, for
\* every eigen_decay
C9_FixedPoint ==
    pc = "update" =>
        \A k \in 1 .. Len(rtd_trajectory) - 1 :
            rtd_trajectory[k] = target_pos => rtd_trajectory[k + 1] = target_pos

\* the filter was applied to a non-zero state equal to the raw sample, with
\* a non-zero gain
C9_Witness ==
    /\ pc = "update"
    /\ Len(rtd_trajectory) >= 2
    /\ rtd_trajectory[1] = target_pos
    /\ target_pos # 0
    /\ eigen_decay # One

====
